---- MODULE Spec2Model ----
(***************************************************************************)
(* Model of the ESP32 motor controller client (MotorControl component):    *)
(* the state reconciler toMotorState, the poll loop pollStateOnce with its *)
(* backoff and AbortController, the command dispatcher postCommand, the    *)
(* debounced slider handler and the mount / unmount effect.                *)
(*                                                                         *)
(* JavaScript runs every continuation to completion, so each action is one *)
(* task: a handler, a timer callback, or the code that follows an await.   *)
(* A promise rejected by AbortController.abort() is settled in a microtask *)
(* of the task that called abort(), before any other task runs: the        *)
(* continuation of an aborted read is its own action (ReadAborted), and    *)
(* every other action waits until no aborted read is left (Quiescent).     *)
(***************************************************************************)
EXTENDS Integers, Sequences, FiniteSets, Bags

\* ---------------------------------------------------------------- bounds
MaxCmds  == 2   \* command requests in flight at once
MaxTime  == 1   \* distinct readings of the clock (new Date())
MaxBurst == 3   \* slider inputs counted in one burst (saturating)
MaxFail  == 7   \* consecutive poll failures counted (saturating)

\* ------------------------------------------------------ program constants
POLL_INTERVAL     == 3000
MAX_BACKOFF       == 30000
SPEED_DEBOUNCE_MS == 150
BackoffFloor      == 1000
SpeedMin          == 0
SpeedMax          == 100

Min(a, b) == IF a < b THEN a ELSE b
Max(a, b) == IF a > b THEN a ELSE b

\* --------------------------------------------------- untrusted raw values
\* A JSON value of a raw payload field: absent, null, boolean, number or a
\* string (a sequence of characters).
Absent  == [t |-> "absent", b |-> FALSE, n |-> 0, s |-> <<>>]
JNull   == [t |-> "null",   b |-> FALSE, n |-> 0, s |-> <<>>]
Bool(x) == [t |-> "bool",   b |-> x,     n |-> 0, s |-> <<>>]
Num(x)  == [t |-> "num",    b |-> FALSE, n |-> x, s |-> <<>>]
Str(x)  == [t |-> "str",    b |-> FALSE, n |-> 0, s |-> x]

UpperChars == <<"A", "B", "C", "D", "E", "F", "G", "H", "I", "J", "K", "L", "M",
                "N", "O", "P", "Q", "R", "S", "T", "U", "V", "W", "X", "Y", "Z">>
LowerChars == <<"a", "b", "c", "d", "e", "f", "g", "h", "i", "j", "k", "l", "m",
                "n", "o", "p", "q", "r", "s", "t", "u", "v", "w", "x", "y", "z">>

\* String.prototype.toLowerCase, character by character.
LowerChar(c) ==
  IF \E i \in 1..Len(UpperChars) : UpperChars[i] = c
  THEN LowerChars[CHOOSE i \in 1..Len(UpperChars) : UpperChars[i] = c]
  ELSE c

toLowerCase(s) == [i \in 1..Len(s) |-> LowerChar(s[i])]

\* RawStateFromServer: the three fields the client reads.
RawState(p, d, sp) == [power |-> p, direction |-> d, speed |-> sp]

\* What fetchJson hands back: a parsed body, or null.
NullData   == [null |-> TRUE,  raw |-> RawState(Absent, Absent, Absent)]
Data(raw)  == [null |-> FALSE, raw |-> raw]

\* ------------------------------------------------------------ toMotorState
\* power: raw.power === true || (string && lower === "on") || raw.power === "ON"
powerValMissingLower(raw) ==
  \/ (raw.power.t = "bool" /\ raw.power.b = TRUE)
  \/ (raw.power.t = "str" /\ raw.power.s = <<"o", "n">>)
  \/ (raw.power.t = "str" /\ raw.power.s = <<"O", "N">>)

powerVal(raw) ==
  \/ (raw.power.t = "bool" /\ raw.power.b = TRUE)
  \/ (raw.power.t = "str" /\ toLowerCase(raw.power.s) = <<"o", "n">>)
  \/ (raw.power.t = "str" /\ raw.power.s = <<"O", "N">>)

dirValExact(raw) ==
  IF raw.direction.t = "str"
     /\ raw.direction.s = <<"r", "e", "v", "e", "r", "s", "e">>
  THEN -1
  ELSE 1

dirVal(raw) ==
  IF raw.direction.t = "str"
     /\ toLowerCase(raw.direction.s) = <<"r", "e", "v", "e", "r", "s", "e">>
  THEN -1
  ELSE 1

\* prev is optional: <<>> when no previous state is passed, <<st>> otherwise.
speedValNoClamp(raw, prev) ==
  IF raw.speed.t = "num"
  THEN raw.speed.n
  ELSE IF prev = <<>> THEN 100 ELSE prev[1].speed

speedValDefault(raw, prev) ==
  IF raw.speed.t = "num"
  THEN Max(SpeedMin, Min(SpeedMax, raw.speed.n))
  ELSE 100

speedVal(raw, prev) ==
  IF raw.speed.t = "num"
  THEN Max(SpeedMin, Min(SpeedMax, raw.speed.n))
  ELSE IF prev = <<>> THEN 100 ELSE prev[1].speed

toMotorState(raw, prev) ==
  [power |-> powerVal(raw), dir |-> dirVal(raw), speed |-> speedVal(raw, prev)]

\* setState((prev) => ({ ...prev, ...toMotorState(data, prev) })) guarded by
\* "if (data)": a null body leaves the state alone.
mergeFresh(data, st) ==
  IF data.null THEN st ELSE toMotorState(data.raw, <<>>)

mergeData(data, st) ==
  IF data.null THEN st ELSE toMotorState(data.raw, <<st>>)

\* ------------------------------------------------------------------ state
VARIABLES
  phase,          \* "init" (constructed), "mounted" (effect ran), "unmounted"
  state,          \* MotorState: useState({power:false, dir:1, speed:100})
  loading,        \* busy flag
  error,          \* lastError: NoError, PollError or CmdError
  connected,
  lastSeen,       \* 0 = null, otherwise a clock reading
  backoffRef,
  pollTimerRef,   \* 0 = null, otherwise the id window.setTimeout returned
  speedTimerRef,
  pollAbortRef,   \* 0 = null, otherwise the id of the latest AbortController
  mountedRef,
  timers,         \* pending window timers
  reads,          \* GET /api/state requests whose cycle has not finished
  cmds,           \* POST requests in flight, a bag of [ep, body]
  failCount,      \* history: consecutive non-cancelled poll failures
  burst,          \* history: the current burst of slider inputs
  order,          \* history: which reads in flight are older than a write
  rRaw, rPrev, rOut, rPc   \* harness that applies toMotorState to one input

appVars == <<phase, state, loading, error, connected, lastSeen, backoffRef,
             pollTimerRef, speedTimerRef, pollAbortRef, mountedRef, timers,
             reads, cmds>>
histVars == <<failCount, burst, order>>
harnessVars == <<rRaw, rPrev, rOut, rPc>>
vars == <<appVars, histVars, harnessVars>>

NoError   == "null"
PollError == "Failed to connect to ESP32"
CmdError  == "command error message"

\* Slider positions (min 0, max 100): the one the operator sets in Spec, and
\* the ones a drag goes through in SpecDebounce.
SliderVals == {75}
DragVals   == {10, 40, 75}

\* Bodies the device answers with, to GET /api/state and to the POSTs.
ServerPayloads ==
  { RawState(Str(<<"O", "N">>), Absent, Num(150)),
    RawState(Str(<<"o", "f", "f">>), Str(<<"R", "e", "v", "e", "r", "s", "e">>), Num(-5)),
    RawState(Absent, Absent, Absent) }

\* res.json() of an ok response: a payload, or null when the body does not
\* parse (or is empty).
JsonResults == {NullData} \cup {Data(raw) : raw \in ServerPayloads}

Times == 1..MaxTime
\* new Date(): the clock does not run backwards.
DatesStale == {lastSeen}

Dates == {d \in Times : d >= lastSeen}

\* ----------------------------------------------------------------- timers
\* window.setTimeout never hands out an id that is still referenced.
FreshTimer(pending, refs) ==
  CHOOSE i \in 1..(Cardinality(pending) + Cardinality(refs) + 1) :
    /\ i \notin {t.id : t \in pending}
    /\ i \notin refs
    /\ \A j \in 1..(i - 1) : j \in {t.id : t \in pending} \/ j \in refs

\* window.clearTimeout(id), under "if (ref.current)".
clearTimeoutNoop(pending, id) == pending

clearTimeout(pending, id) == {t \in pending : t.id # id}

\* ------------------------------------------------------- abort controllers
FreshCtrl ==
  CHOOSE i \in 1..(Cardinality(reads) + 2) :
    /\ i \notin {r.id : r \in reads}
    /\ i # pollAbortRef
    /\ \A j \in 1..(i - 1) : j \in {r.id : r \in reads} \/ j = pollAbortRef

\* ctrl.abort(): the request bound to the controller's signal is cancelled;
\* a controller whose request has finished is not in reads and nothing
\* happens.
abortNothing(rs, c) == rs

abort(rs, c) ==
  {IF r.id = c THEN [r EXCEPT !.aborted = TRUE] ELSE r : r \in rs}

\* No continuation of a cancelled request is waiting in the microtask queue.
Quiescent == \A r \in reads : ~r.aborted

Outstanding == {r \in reads : ~r.aborted}

\* ------------------------------------------------------------------- Init
\* n: inputs of the burst so far (saturating); last: the value of its latest
\* input while its POST is still due; posts: the POSTs issued for it;
\* final: every POST issued for it carried the latest input.
NoBurst == [n |-> 0, last |-> 0, posts |-> 0, final |-> TRUE]

InitAppConnected ==
  /\ phase = "init"
  /\ state = [power |-> FALSE, dir |-> 1, speed |-> 100]
  /\ loading = FALSE
  /\ error = NoError
  /\ connected = TRUE
  /\ lastSeen = 0
  /\ backoffRef = 0
  /\ pollTimerRef = 0
  /\ speedTimerRef = 0
  /\ pollAbortRef = 0
  /\ mountedRef = TRUE
  /\ timers = {}
  /\ reads = {}
  /\ cmds = EmptyBag

InitApp ==
  /\ phase = "init"
  /\ state = [power |-> FALSE, dir |-> 1, speed |-> 100]
  /\ loading = FALSE
  /\ error = NoError
  /\ connected = FALSE
  /\ lastSeen = 0
  /\ backoffRef = 0
  /\ pollTimerRef = 0
  /\ speedTimerRef = 0
  /\ pollAbortRef = 0
  /\ mountedRef = TRUE
  /\ timers = {}
  /\ reads = {}
  /\ cmds = EmptyBag

\* sent: the reads that were in flight when the oldest command still in
\* flight was sent; cmd: the reads issued before a command whose response
\* has been merged; edit: the reads issued before a slider edit was applied.
NoOrder == [sent |-> {}, cmd |-> {}, edit |-> {}]

InitHist ==
  /\ failCount = 0
  /\ burst = NoBurst
  /\ order = NoOrder

InitHarness ==
  /\ rRaw = RawState(Absent, Absent, Absent)
  /\ rPrev = <<>>
  /\ rOut = [power |-> FALSE, dir |-> 1, speed |-> 100]
  /\ rPc = "app"

Init == InitApp /\ InitHist /\ InitHarness

\* ----------------------------------------------------------- pollStateOnce
\* The synchronous head of pollStateOnce: abort the controller recorded in
\* pollAbortRef, make a new one, record it and issue the GET with its signal.
pollStateOnce ==
  LET rs == IF pollAbortRef # 0 THEN abort(reads, pollAbortRef) ELSE reads
      id == FreshCtrl
  IN /\ reads' = rs \cup {[id |-> id, stage |-> "fetch", aborted |-> FALSE]}
     /\ pollAbortRef' = id

\* backoffRef.current ? Math.min(backoffRef.current * 2, MAX_BACKOFF) : 1000
nextBackoff(b) == IF b # 0 THEN Min(b * 2, MAX_BACKOFF) ELSE BackoffFloor

\* The finally block; b is backoffRef.current as the try / catch left it.
pollFinallyUnguarded(b) ==
  LET next    == IF b # 0 THEN b ELSE POLL_INTERVAL
      cleared == IF pollTimerRef # 0 THEN clearTimeout(timers, pollTimerRef) ELSE timers
      id      == FreshTimer(cleared, {speedTimerRef})
  IN /\ timers' = cleared \cup {[id |-> id, kind |-> "poll", delay |-> next, val |-> 0]}
     /\ pollTimerRef' = id

pollFinallyNever(b) == UNCHANGED <<timers, pollTimerRef>>

pollFinallyNoClear(b) ==
  IF ~mountedRef
  THEN UNCHANGED <<timers, pollTimerRef>>
  ELSE LET next == IF b # 0 THEN b ELSE POLL_INTERVAL
           id   == FreshTimer(timers, {speedTimerRef})
       IN /\ timers' = timers \cup {[id |-> id, kind |-> "poll", delay |-> next, val |-> 0]}
          /\ pollTimerRef' = id

pollFinally(b) ==
  IF ~mountedRef
  THEN UNCHANGED <<timers, pollTimerRef>>
  ELSE LET next    == IF b # 0 THEN b ELSE POLL_INTERVAL
           cleared == IF pollTimerRef # 0 THEN clearTimeout(timers, pollTimerRef) ELSE timers
           id      == FreshTimer(cleared, {speedTimerRef})
       IN /\ timers' = cleared \cup {[id |-> id, kind |-> "poll", delay |-> next, val |-> 0]}
          /\ pollTimerRef' = id

\* The try body after fetchJson returned data (a payload or null).
pollReturnedKeepsBackoff(data) ==
  IF ~mountedRef
  THEN /\ UNCHANGED <<state, connected, lastSeen, error, backoffRef>>
       /\ pollFinally(backoffRef)
  ELSE /\ state' = mergeData(data, state)
       /\ connected' = TRUE
       /\ \E d \in Dates : lastSeen' = d
       /\ error' = NoError
       /\ UNCHANGED backoffRef
       /\ pollFinally(backoffRef)

pollReturned(data) ==
  IF ~mountedRef
  THEN /\ UNCHANGED <<state, connected, lastSeen, error, backoffRef>>
       /\ pollFinally(backoffRef)
  ELSE /\ state' = mergeData(data, state)
       /\ connected' = TRUE
       /\ \E d \in Dates : lastSeen' = d
       /\ error' = NoError
       /\ backoffRef' = 0
       /\ pollFinally(0)

\* The catch block: an AbortError is ignored, anything else is a failure.
pollThrew(isAbortError) ==
  IF isAbortError
  THEN /\ UNCHANGED <<state, connected, lastSeen, error, backoffRef>>
       /\ pollFinally(backoffRef)
  ELSE /\ connected' = FALSE
       /\ error' = PollError
       /\ backoffRef' = nextBackoff(backoffRef)
       /\ UNCHANGED <<state, lastSeen>>
       /\ pollFinally(nextBackoff(backoffRef))

\* useEffect body: mountedRef.current = true; pollStateOnce().
Mount ==
  /\ phase = "init"
  /\ phase' = "mounted"
  /\ mountedRef' = TRUE
  /\ pollStateOnce
  /\ UNCHANGED <<state, loading, error, connected, lastSeen, backoffRef,
                 pollTimerRef, speedTimerRef, timers, cmds>>
  /\ UNCHANGED harnessVars

\* The poll timer elapses and calls pollStateOnce.
PollTimerFire(t) ==
  /\ Quiescent
  /\ t \in timers /\ t.kind = "poll"
  /\ timers' = timers \ {t}
  /\ pollStateOnce
  /\ UNCHANGED <<phase, state, loading, error, connected, lastSeen, backoffRef,
                 pollTimerRef, speedTimerRef, mountedRef, cmds>>
  /\ UNCHANGED harnessVars

\* fetch() resolves with the response head; fetchJson goes on to read the
\* body: res.json() of an ok response, res.text() of any other.
ReadHeaders(r, ok) ==
  /\ Quiescent
  /\ r \in reads /\ r.stage = "fetch"
  /\ reads' = (reads \ {r}) \cup {[r EXCEPT !.stage = IF ok THEN "json" ELSE "text"]}
  /\ UNCHANGED <<phase, state, loading, error, connected, lastSeen, backoffRef,
                 pollTimerRef, speedTimerRef, pollAbortRef, mountedRef, timers,
                 cmds>>
  /\ UNCHANGED harnessVars

\* fetch() rejects with a network error.
ReadNetworkError(r) ==
  /\ Quiescent
  /\ r \in reads /\ r.stage = "fetch"
  /\ reads' = reads \ {r}
  /\ pollThrew(FALSE)
  /\ UNCHANGED <<phase, loading, speedTimerRef, pollAbortRef, mountedRef, cmds>>
  /\ UNCHANGED harnessVars

\* res.json() settles: fetchJson returns the parsed body, or null when
\* parsing throws.
ReadBodyJson(r, data) ==
  /\ Quiescent
  /\ r \in reads /\ r.stage = "json"
  /\ reads' = reads \ {r}
  /\ pollReturned(data)
  /\ UNCHANGED <<phase, loading, speedTimerRef, pollAbortRef, mountedRef, cmds>>
  /\ UNCHANGED harnessVars

\* res.text() of a non-ok response settles: fetchJson throws an Error
\* carrying the status line.
ReadBodyText(r) ==
  /\ Quiescent
  /\ r \in reads /\ r.stage = "text"
  /\ reads' = reads \ {r}
  /\ pollThrew(FALSE)
  /\ UNCHANGED <<phase, loading, speedTimerRef, pollAbortRef, mountedRef, cmds>>
  /\ UNCHANGED harnessVars

\* The continuation of a read whose controller was aborted.
\*   during fetch():    fetch rejects with an AbortError, which the catch
\*                      block of pollStateOnce ignores;
\*   during res.json(): the rejection is swallowed by fetchJson's own
\*                      try / catch, which returns null;
\*   during res.text(): the rejection is swallowed by .catch(() => ""), and
\*                      fetchJson throws the status Error.
ReadAborted(r) ==
  /\ r \in reads /\ r.aborted
  /\ reads' = reads \ {r}
  /\ CASE r.stage = "fetch" -> pollThrew(TRUE)
       [] r.stage = "json"  -> pollReturned(NullData)
       [] r.stage = "text"  -> pollThrew(FALSE)
  /\ UNCHANGED <<phase, loading, speedTimerRef, pollAbortRef, mountedRef, cmds>>
  /\ UNCHANGED harnessVars

\* ------------------------------------------------------------- postCommand
\* The UI offers the power and direction buttons and the slider only while
\* disabled={!connected || loading} is false, and Retry Now while
\* disabled={loading} is false.
ControlsEnabled == phase = "mounted" /\ connected /\ ~loading
RetryEnabled    == phase = "mounted" /\ ~loading

\* The synchronous head of postCommand: setLoading(true); setError(null);
\* then the POST is issued.
postCommand(endpoint, body) ==
  /\ BagCardinality(cmds) < MaxCmds
  /\ loading' = TRUE
  /\ error' = NoError
  /\ cmds' = cmds (+) SetToBag({[ep |-> endpoint, body |-> body]})

InFlight == BagToSet(cmds)
Settle(c) == cmds (-) SetToBag({c})

\* finally { if (mountedRef.current) setLoading(false); }
commandFinallyAlways(rest) == loading' = FALSE

commandFinally(rest) ==
  loading' = IF mountedRef THEN FALSE ELSE loading

\* The POST succeeded: fetchJson returned data (a payload or null).
postCommandOkResetsBackoff(c, data) ==
  /\ Quiescent
  /\ c \in InFlight
  /\ cmds' = Settle(c)
  /\ state' = mergeData(data, state)
  /\ connected' = TRUE
  /\ \E d \in Dates : lastSeen' = d
  /\ commandFinally(Settle(c))
  /\ backoffRef' = 0
  /\ UNCHANGED <<phase, error, pollTimerRef, speedTimerRef,
                 pollAbortRef, mountedRef, timers, reads>>
  /\ UNCHANGED harnessVars

postCommandOk(c, data) ==
  /\ Quiescent
  /\ c \in InFlight
  /\ cmds' = Settle(c)
  /\ state' = mergeData(data, state)
  /\ connected' = TRUE
  /\ \E d \in Dates : lastSeen' = d
  /\ commandFinally(Settle(c))
  /\ UNCHANGED <<phase, error, backoffRef, pollTimerRef, speedTimerRef,
                 pollAbortRef, mountedRef, timers, reads>>
  /\ UNCHANGED harnessVars

\* The catch block of a failed POST (non-2xx or network error).
commandCatchRollback(st) == [st EXCEPT !.speed = 100]

commandCatch(st) == st

\* The POST failed: fetchJson threw; the error is recorded and rethrown to
\* the handler, whose .catch(() => {}) drops it.
postCommandFail(c) ==
  /\ Quiescent
  /\ c \in InFlight
  /\ cmds' = Settle(c)
  /\ connected' = FALSE
  /\ error' = CmdError
  /\ state' = commandCatch(state)
  /\ commandFinally(Settle(c))
  /\ UNCHANGED <<phase, lastSeen, backoffRef, pollTimerRef, speedTimerRef,
                 pollAbortRef, mountedRef, timers, reads>>
  /\ UNCHANGED harnessVars

\* ---------------------------------------------------------------- handlers
handlePower(on) ==
  /\ Quiescent
  /\ ControlsEnabled
  /\ postCommand("/api/power", Str(IF on THEN <<"O", "N">> ELSE <<"O", "F", "F">>))
  /\ UNCHANGED <<phase, state, connected, lastSeen, backoffRef, pollTimerRef,
                 speedTimerRef, pollAbortRef, mountedRef, timers, reads>>
  /\ UNCHANGED harnessVars

toggleDirection ==
  /\ Quiescent
  /\ ControlsEnabled
  /\ LET newDir == IF state.dir = 1 THEN -1 ELSE 1
     IN postCommand("/api/direction",
                    Str(IF newDir = 1
                        THEN <<"F", "o", "r", "w", "a", "r", "d">>
                        ELSE <<"R", "e", "v", "e", "r", "s", "e">>))
  /\ UNCHANGED <<phase, state, connected, lastSeen, backoffRef, pollTimerRef,
                 speedTimerRef, pollAbortRef, mountedRef, timers, reads>>
  /\ UNCHANGED harnessVars

SpeedTimerPending == \E t \in timers : t.kind = "speed"

\* if (speedTimerRef.current) window.clearTimeout(speedTimerRef.current)
clearSpeedTimerNever(pending, id) == pending

clearSpeedTimer(pending, id) ==
  IF id # 0 THEN clearTimeout(pending, id) ELSE pending

handleSpeedChange(val) ==
  /\ Quiescent
  /\ ControlsEnabled
  /\ state' = [state EXCEPT !.speed = val]
  /\ LET cleared == clearSpeedTimer(timers, speedTimerRef)
         id      == FreshTimer(cleared, {pollTimerRef})
     IN /\ timers' = cleared \cup {[id |-> id, kind |-> "speed",
                                    delay |-> SPEED_DEBOUNCE_MS, val |-> val]}
        /\ speedTimerRef' = id
  /\ UNCHANGED <<phase, loading, error, connected, lastSeen, backoffRef,
                 pollTimerRef, pollAbortRef, mountedRef, reads, cmds>>
  /\ UNCHANGED harnessVars

\* The debounce timer elapses: postCommand("/api/speed", { speed: val }).
SpeedTimerFire(t) ==
  /\ Quiescent
  /\ t \in timers /\ t.kind = "speed"
  /\ timers' = timers \ {t}
  /\ postCommand("/api/speed", Num(t.val))
  /\ UNCHANGED <<phase, state, connected, lastSeen, backoffRef, pollTimerRef,
                 speedTimerRef, pollAbortRef, mountedRef, reads>>
  /\ UNCHANGED harnessVars

handleRetry ==
  /\ Quiescent
  /\ RetryEnabled
  /\ backoffRef' = 0
  /\ timers' = IF pollTimerRef # 0 THEN clearTimeout(timers, pollTimerRef) ELSE timers
  /\ pollStateOnce
  /\ UNCHANGED <<phase, state, loading, error, connected, lastSeen,
                 pollTimerRef, speedTimerRef, mountedRef, cmds>>
  /\ UNCHANGED harnessVars

\* The cleanup the effect returns: runs when the component unmounts.
Unmount ==
  /\ Quiescent
  /\ phase = "mounted"
  /\ phase' = "unmounted"
  /\ mountedRef' = FALSE
  /\ reads' = IF pollAbortRef # 0 THEN abort(reads, pollAbortRef) ELSE reads
  /\ timers' = LET a == IF pollTimerRef # 0 THEN clearTimeout(timers, pollTimerRef) ELSE timers
               IN IF speedTimerRef # 0 THEN clearTimeout(a, speedTimerRef) ELSE a
  /\ UNCHANGED <<state, loading, error, connected, lastSeen, backoffRef,
                 pollTimerRef, speedTimerRef, pollAbortRef, cmds>>
  /\ UNCHANGED harnessVars

\* -------------------------------------------------------------------- Next
\* The client: every task the browser can run.  The history variables are
\* not recorded here.
Next ==
  \/ Mount /\ UNCHANGED histVars
  \/ \E t \in timers : PollTimerFire(t) /\ UNCHANGED histVars
  \/ \E r \in reads, ok \in BOOLEAN : ReadHeaders(r, ok) /\ UNCHANGED histVars
  \/ \E r \in reads : ReadNetworkError(r) /\ UNCHANGED histVars
  \/ \E r \in reads, data \in JsonResults : ReadBodyJson(r, data) /\ UNCHANGED histVars
  \/ \E r \in reads : ReadBodyText(r) /\ UNCHANGED histVars
  \/ \E r \in reads : ReadAborted(r) /\ UNCHANGED histVars
  \/ \E on \in BOOLEAN : handlePower(on) /\ UNCHANGED histVars
  \/ toggleDirection /\ UNCHANGED histVars
  \/ \E val \in SliderVals : handleSpeedChange(val) /\ UNCHANGED histVars
  \/ \E t \in timers : SpeedTimerFire(t) /\ UNCHANGED histVars
  \/ \E c \in InFlight, data \in JsonResults : postCommandOk(c, data) /\ UNCHANGED histVars
  \/ \E c \in InFlight : postCommandFail(c) /\ UNCHANGED histVars
  \/ handleRetry /\ UNCHANGED histVars
  \/ Unmount /\ UNCHANGED histVars

Spec == Init /\ [][Next]_vars

\* ------------------------------------------------- the poll loop, counted
\* The poll loop on its own (mount, timer, responses, Retry Now, unmount)
\* with failCount recording the consecutive poll cycles that failed without
\* having been cancelled: a cycle that returns resets it, as does Retry Now.
NextBackoff ==
  \/ Mount /\ UNCHANGED histVars
  \/ \E t \in timers : PollTimerFire(t) /\ UNCHANGED histVars
  \/ \E r \in reads, ok \in BOOLEAN : ReadHeaders(r, ok) /\ UNCHANGED histVars
  \/ \E r \in reads : ReadNetworkError(r)
       /\ failCount' = Min(failCount + 1, MaxFail) /\ UNCHANGED <<burst, order>>
  \/ \E r \in reads, data \in JsonResults : ReadBodyJson(r, data)
       /\ failCount' = 0 /\ UNCHANGED <<burst, order>>
  \/ \E r \in reads : ReadBodyText(r)
       /\ failCount' = Min(failCount + 1, MaxFail) /\ UNCHANGED <<burst, order>>
  \/ \E r \in reads : ReadAborted(r) /\ UNCHANGED histVars
  \/ handleRetry /\ failCount' = 0 /\ UNCHANGED <<burst, order>>
  \/ Unmount /\ UNCHANGED histVars

SpecBackoff == Init /\ [][NextBackoff]_vars

\* ------------------------------------------------ the debounce gate, counted
\* The client in front of a device that answers every request (reads
\* succeed, commands succeed or fail), with burst recording the slider
\* inputs: a burst starts with an input made while no debounce timer is
\* pending and goes on with every input made while one is.
burstInput(val) ==
  IF SpeedTimerPending
  THEN [burst EXCEPT !.n = Min(@ + 1, MaxBurst), !.last = val]
  ELSE [n |-> 1, last |-> val, posts |-> 0, final |-> TRUE]

burstPost(t) ==
  [burst EXCEPT !.posts = Min(@ + 1, 2), !.last = 0,
                !.final = @ /\ t.val = burst.last]

NextDebounce ==
  \/ Mount /\ UNCHANGED histVars
  \/ \E t \in timers : PollTimerFire(t) /\ UNCHANGED histVars
  \/ \E r \in reads : ReadHeaders(r, TRUE) /\ UNCHANGED histVars
  \/ \E r \in reads, data \in JsonResults : ReadBodyJson(r, data) /\ UNCHANGED histVars
  \/ \E r \in reads : ReadAborted(r) /\ UNCHANGED histVars
  \/ \E on \in BOOLEAN : handlePower(on) /\ UNCHANGED histVars
  \/ toggleDirection /\ UNCHANGED histVars
  \/ \E val \in DragVals : handleSpeedChange(val)
       /\ burst' = burstInput(val) /\ UNCHANGED <<failCount, order>>
  \/ \E t \in timers : SpeedTimerFire(t)
       /\ burst' = burstPost(t) /\ UNCHANGED <<failCount, order>>
  \/ \E c \in InFlight, data \in JsonResults : postCommandOk(c, data) /\ UNCHANGED histVars
  \/ \E c \in InFlight : postCommandFail(c) /\ UNCHANGED histVars
  \/ handleRetry /\ UNCHANGED histVars
  \/ Unmount /\ UNCHANGED histVars

SpecDebounce == Init /\ [][NextDebounce]_vars

\* ------------------------------------------ reads and writes, in order
\* The client in front of a device that answers every request with
\* success, with order recording which reads in flight were issued before
\* a write (a merged command response, a slider edit) was applied.
ReadIds == {r.id : r \in reads}

orderSend ==
  IF cmds = EmptyBag THEN [order EXCEPT !.sent = ReadIds] ELSE order

orderMerged(c, data) ==
  [order EXCEPT !.sent = IF Settle(c) = EmptyBag THEN {} ELSE @,
                !.cmd  = IF data.null THEN @ ELSE @ \cup (order.sent \cap ReadIds)]

orderEdit == [order EXCEPT !.edit = @ \cup ReadIds]

orderDone(r) ==
  [sent |-> order.sent \ {r.id}, cmd |-> order.cmd \ {r.id},
   edit |-> order.edit \ {r.id}]

NextStale ==
  \/ Mount /\ UNCHANGED histVars
  \/ \E t \in timers : PollTimerFire(t) /\ UNCHANGED histVars
  \/ \E r \in reads : ReadHeaders(r, TRUE) /\ UNCHANGED histVars
  \/ \E r \in reads, data \in JsonResults : ReadBodyJson(r, data)
       /\ order' = orderDone(r) /\ UNCHANGED <<failCount, burst>>
  \/ \E r \in reads : ReadAborted(r)
       /\ order' = orderDone(r) /\ UNCHANGED <<failCount, burst>>
  \/ \E on \in BOOLEAN : handlePower(on)
       /\ order' = orderSend /\ UNCHANGED <<failCount, burst>>
  \/ \E val \in SliderVals : handleSpeedChange(val)
       /\ order' = orderEdit /\ UNCHANGED <<failCount, burst>>
  \/ \E t \in timers : SpeedTimerFire(t)
       /\ order' = orderSend /\ UNCHANGED <<failCount, burst>>
  \/ \E c \in InFlight, data \in JsonResults : postCommandOk(c, data)
       /\ order' = orderMerged(c, data) /\ UNCHANGED <<failCount, burst>>
  \/ handleRetry /\ UNCHANGED histVars
  \/ Unmount /\ UNCHANGED histVars

SpecStale == Init /\ [][NextStale]_vars

\* ------------------------------------------------- the client, scheduled
\* The polling engine with the power button and Retry Now, in front of a
\* device that may fail any request.  The browser runs every timer that
\* stays pending, every request that is not cancelled settles (fetch()
\* resolves or rejects, the body read ends), and the continuation of a
\* cancelled request runs as a microtask.
PollTimerPending == \E t \in timers : t.kind = "poll"

TimerElapses == \E t \in timers : PollTimerFire(t)

FetchSettles ==
  \E r \in reads : (\E ok \in BOOLEAN : ReadHeaders(r, ok)) \/ ReadNetworkError(r)

BodySettles ==
  \E r \in reads : (\E data \in JsonResults : ReadBodyJson(r, data)) \/ ReadBodyText(r)

AbortSettles == \E r \in reads : ReadAborted(r)

NextLive ==
  \/ Mount /\ UNCHANGED histVars
  \/ \E t \in timers : PollTimerFire(t) /\ UNCHANGED histVars
  \/ \E r \in reads, ok \in BOOLEAN : ReadHeaders(r, ok) /\ UNCHANGED histVars
  \/ \E r \in reads : ReadNetworkError(r) /\ UNCHANGED histVars
  \/ \E r \in reads, data \in JsonResults : ReadBodyJson(r, data) /\ UNCHANGED histVars
  \/ \E r \in reads : ReadBodyText(r) /\ UNCHANGED histVars
  \/ \E r \in reads : ReadAborted(r) /\ UNCHANGED histVars
  \/ \E on \in BOOLEAN : handlePower(on) /\ UNCHANGED histVars
  \/ \E c \in InFlight, data \in JsonResults : postCommandOk(c, data) /\ UNCHANGED histVars
  \/ \E c \in InFlight : postCommandFail(c) /\ UNCHANGED histVars
  \/ handleRetry /\ UNCHANGED histVars
  \/ Unmount /\ UNCHANGED histVars

Fairness ==
  /\ WF_vars(Mount /\ UNCHANGED histVars)
  /\ WF_vars(TimerElapses /\ UNCHANGED histVars)
  /\ WF_vars(FetchSettles /\ UNCHANGED histVars)
  /\ WF_vars(BodySettles /\ UNCHANGED histVars)
  /\ WF_vars(AbortSettles /\ UNCHANGED histVars)

SpecLive == Init /\ [][NextLive]_vars /\ Fairness

\* ------------------------------------------------- toMotorState on its own
RawPowers ==
  { Absent, JNull, Bool(TRUE), Bool(FALSE), Num(1), Str(<<>>),
    Str(<<"o", "n">>), Str(<<"O", "N">>), Str(<<"O", "n">>), Str(<<"o", "N">>),
    Str(<<"o", "f", "f">>), Str(<<"O", "F", "F">>), Str(<<"o", "n", "e">>),
    Str(<<"t", "r", "u", "e">>) }

RawDirections ==
  { Absent, JNull, Num(-1), Bool(TRUE),
    Str(<<"r", "e", "v", "e", "r", "s", "e">>),
    Str(<<"R", "e", "v", "e", "r", "s", "e">>),
    Str(<<"R", "E", "V", "E", "R", "S", "E">>),
    Str(<<"f", "o", "r", "w", "a", "r", "d">>),
    Str(<<"F", "o", "r", "w", "a", "r", "d">>),
    Str(<<"r", "e", "v">>) }

RawSpeeds ==
  { Absent, JNull, Bool(TRUE), Str(<<"5", "0">>),
    Num(-5), Num(0), Num(1), Num(40), Num(100), Num(101), Num(150) }

PrevStates ==
  { <<>> } \cup
  { <<[power |-> p, dir |-> d, speed |-> sp]>> :
      p \in BOOLEAN, d \in {1, -1}, sp \in {0, 40, 100} }

InitReconcile ==
  /\ InitApp
  /\ InitHist
  /\ rRaw \in {RawState(p, d, sp) : p \in RawPowers, d \in RawDirections, sp \in RawSpeeds}
  /\ rPrev \in PrevStates
  /\ rOut = [power |-> FALSE, dir |-> 1, speed |-> 100]
  /\ rPc = "in"

Reconcile ==
  /\ rPc = "in"
  /\ rOut' = toMotorState(rRaw, rPrev)
  /\ rPc' = "out"
  /\ UNCHANGED <<rRaw, rPrev>>
  /\ UNCHANGED <<appVars, histVars>>

NextReconcile == Reconcile

SpecReconcile == InitReconcile /\ [][NextReconcile]_vars

\* ================================================================== claims

\* C1: at most one read request is outstanding in every reachable state: a
\* read that has not been cancelled is the one whose controller pollAbortRef
\* records, so every earlier read was cancelled when the new one was issued.
C1_SingleFlight ==
  /\ Cardinality(Outstanding) <= 1
  /\ \A r \in Outstanding : r.id = pollAbortRef

\* A new cycle has just started while an earlier read was in flight: the
\* earlier one is cancelled and the new one is outstanding.
C1_Witness ==
  /\ \E r \in reads : r.aborted
  /\ \E r \in reads : ~r.aborted /\ r.stage = "fetch"
  /\ phase = "mounted"

\* C2 (as claimed): after N >= 1 consecutive non-cancelled poll failures with
\* no success and no Retry Now in between, the backoff delay is
\* min(1000 * 2^(N-1), 30000), it never exceeds 30000, and it is the delay of
\* the poll timer scheduled next.
C2_BackoffClosedForm ==
  /\ backoffRef <= MAX_BACKOFF
  /\ failCount >= 1 =>
       /\ backoffRef = Min(1000 * 2^(failCount - 1), 30000)
       /\ \A t \in timers : t.kind = "poll" => t.delay = backoffRef

\* C3: a burst of slider inputs, each made while the debounce timer of the
\* previous one is pending, issues exactly one POST /api/speed, carrying the
\* last input: no POST is issued while the timer is pending, the pending timer
\* is the only one and holds the latest input, and once it has fired (the
\* client still running) one POST has been issued and it carried that input.
C3_DebounceOnePost ==
  /\ Cardinality({t \in timers : t.kind = "speed"}) <= 1
  /\ burst.posts <= 1
  /\ burst.final
  /\ \A t \in timers : t.kind = "speed" => burst.posts = 0 /\ t.val = burst.last
  /\ (mountedRef /\ burst.n >= 1 /\ ~SpeedTimerPending) => burst.posts = 1

\* A burst of MaxBurst inputs has ended and its POST has been issued.
C3_Witness ==
  /\ burst.n = MaxBurst
  /\ burst.posts = 1
  /\ \E c \in InFlight : c.ep = "/api/speed" /\ c.body.n = state.speed

\* C4 (as claimed): the continuation of a cancelled read changes neither
\* MotorState, connected, lastSeen, lastError nor the backoff delay.
C4_CancelledReadIsSilent ==
  [][(\E r \in reads : r.aborted /\ r \notin reads')
       => UNCHANGED <<state, connected, lastSeen, error, backoffRef>>]_vars

\* C5 (as claimed): once the cleanup has run, nothing changes MotorState,
\* connected, lastSeen, lastError or the backoff delay.
C5_NothingAfterShutdown ==
  [][~mountedRef
       => UNCHANGED <<state, connected, lastSeen, error, backoffRef>>]_vars

\* C6: the cleanup cancels the active read and both timers, and after it no
\* request is issued and no timer is scheduled: no timer is pending and no
\* read is outstanding in any state after shutdown, and no step taken after
\* shutdown adds a read, a command or a timer.
C6_ShutdownIsFinal ==
  /\ [](~mountedRef => timers = {} /\ Outstanding = {})
  /\ [][~mountedRef =>
          /\ reads' \subseteq reads
          /\ timers' \subseteq timers
          /\ \A c \in BagToSet(cmds') : CopiesIn(c, cmds') <= CopiesIn(c, cmds)]_vars

\* Shutdown has caught a poll cycle and a command in flight.
C6_Witness ==
  /\ phase = "unmounted"
  /\ \E r \in reads : r.aborted
  /\ cmds # EmptyBag

\* C7 (as claimed): while the client is running, busy is true whenever a
\* command request is in flight.
C7_BusyWhileInFlight ==
  (mountedRef /\ cmds # EmptyBag) => loading

\* C8: a failed command sets lastError and connected = false, sends nothing
\* further, and leaves MotorState (an optimistic speed included) as it was.
C8_CommandFailure ==
  [][\A c \in InFlight : postCommandFail(c) =>
        /\ error' # NoError
        /\ connected' = FALSE
        /\ state' = state
        /\ reads' = reads
        /\ timers' = timers
        /\ BagCardinality(cmds') = BagCardinality(cmds) - 1]_vars

\* A command has failed after the slider was moved: the optimistic value is
\* still shown.
C8_Witness ==
  /\ error = CmdError
  /\ ~connected
  /\ state.speed \in SliderVals
  /\ cmds = EmptyBag

\* C9: MotorState.speed is within [0,100] in every reachable state, and
\* toMotorState returns a speed within [0,100] for every raw speed, with the
\* current state as previous state and with none.
C9_SpeedInRange ==
  /\ state.speed \in SpeedMin..SpeedMax
  /\ \A sp \in RawSpeeds, prev \in {<<>>, <<state>>} :
       toMotorState(RawState(Absent, Absent, sp), prev).speed \in 0..100

\* A raw speed below 0 has been merged and is shown as 0.
C9_Witness ==
  /\ state.dir = -1
  /\ state.speed = 0

\* C10: toMotorState returns power = true exactly when the raw power is the
\* boolean true or one of the spellings of "on", whatever the previous power.
C10_PowerIff ==
  rPc = "out" =>
    (rOut.power <=>
       \/ rRaw.power = Bool(TRUE)
       \/ rRaw.power \in {Str(<<"o", "n">>), Str(<<"O", "n">>),
                          Str(<<"o", "N">>), Str(<<"O", "N">>)})

\* A mixed-case "On" over a previous state that was off.
C10_Witness ==
  /\ rPc = "out"
  /\ rRaw.power = Str(<<"O", "n">>)
  /\ rPrev # <<>> /\ ~rPrev[1].power
  /\ rOut.power

\* C11: for a raw payload whose speed is missing or not a number,
\* toMotorState returns the previous state's speed when a previous state is
\* given, and 100 when none is.
C11_SpeedFallback ==
  (rPc = "out" /\ rRaw.speed.t # "num") =>
    rOut.speed = IF rPrev = <<>> THEN 100 ELSE rPrev[1].speed

\* A payload without speed over a previous state whose speed is not 100.
C11_Witness ==
  /\ rPc = "out"
  /\ rRaw.speed = Absent
  /\ rPrev # <<>> /\ rPrev[1].speed = 40
  /\ rOut.speed = 40

\* s spells word, letter by letter, in either case.
Spells(s, lower, upper) ==
  /\ Len(s) = Len(lower)
  /\ \A i \in 1..Len(lower) : s[i] = lower[i] \/ s[i] = upper[i]

\* C12: toMotorState returns direction reverse exactly when the raw
\* direction is a string spelling "reverse" in any mix of cases, and forward
\* otherwise; raw {power:"ON", speed:150} with no previous state yields
\* {power:true, direction:forward, speed:100}.
C12_DirectionIff ==
  rPc = "out" =>
    /\ rOut.dir \in {1, -1}
    /\ rOut.dir = -1 <=>
         /\ rRaw.direction.t = "str"
         /\ Spells(rRaw.direction.s,
                   <<"r", "e", "v", "e", "r", "s", "e">>,
                   <<"R", "E", "V", "E", "R", "S", "E">>)
    /\ (rRaw = RawState(Str(<<"O", "N">>), Absent, Num(150)) /\ rPrev = <<>>)
         => rOut = [power |-> TRUE, dir |-> 1, speed |-> 100]

\* The scenario of the specification with a capitalised "Reverse" added.
C12_Witness ==
  /\ rPc = "out"
  /\ rRaw = RawState(Str(<<"O", "N">>), Str(<<"R", "e", "v", "e", "r", "s", "e">>), Num(150))
  /\ rPrev = <<>>
  /\ rOut = [power |-> TRUE, dir |-> -1, speed |-> 100]

\* ------------------------------------------------------------ C13
\* A step that merges the payload data into MotorState: the success path of
\* a poll while the client runs, or of a command.
Merges(data) ==
  /\ ~data.null
  /\ \/ \E r \in reads : mountedRef /\ ReadBodyJson(r, data)
     \/ \E c \in InFlight : postCommandOk(c, data)

NoPower(raw)     == raw.power.t \notin {"bool", "str"}
NoDirection(raw) == raw.direction.t # "str"
NoSpeed(raw)     == raw.speed.t # "num"

\* C13 as stated: merging a payload that omits power, direction or speed
\* leaves that field of MotorState at its previous value.
C13_MissingFieldKeepsPrevious ==
  [][\A data \in JsonResults :
       Merges(data) =>
         /\ NoPower(data.raw) => state'.power = state.power
         /\ NoDirection(data.raw) => state'.dir = state.dir
         /\ NoSpeed(data.raw) => state'.speed = state.speed]_vars

\* C13 amended: merging a payload that omits speed leaves speed at its
\* previous value; a payload that omits power sets power to false and a
\* payload that omits direction sets direction to forward.
C13_MissingFieldFallback ==
  [][\A data \in JsonResults :
       Merges(data) =>
         /\ NoPower(data.raw) => state'.power = FALSE
         /\ NoDirection(data.raw) => state'.dir = 1
         /\ NoSpeed(data.raw) => state'.speed = state.speed]_vars

\* Speed 0 comes only from the payload with speed -5, which also reverses
\* the direction; forward with speed 0 is the empty payload merged after it.
C13_Witness ==
  /\ connected
  /\ state = [power |-> FALSE, dir |-> 1, speed |-> 0]

\* ------------------------------------------------------------ C14
\* C14: once a command's response or a slider edit has been applied to
\* MotorState, the response to a read request issued before that command
\* was sent, or before that edit was made, does not overwrite it: such a
\* read leaves MotorState as the command's response set it, and the speed
\* as the edit set it.
C14_NoStaleRead ==
  [][\A r \in reads :
       (~r.aborted /\ r \notin reads') =>
         /\ r.id \in order.cmd => state' = state
         /\ r.id \in order.edit => state'.speed = state.speed]_vars

\* ------------------------------------------------------------ C15
\* A step that issues a new read request.
NewRead == \E r \in reads' : r.id \notin ReadIds /\ r.stage = "fetch"

\* C15: while the client is not shut down polling never stops: the running
\* client always has a read in flight or a poll timer pending, and, timers
\* firing and requests settling, a new read is issued again and again
\* unless the client is shut down.
C15_PollingNeverStops ==
  /\ [](phase = "mounted" => (Outstanding # {} \/ PollTimerPending))
  /\ (<>[](phase = "unmounted") \/ []<><<NewRead>>_vars)

\* A poll failed, then a command failed, and the next read is in flight.
C15_Witness ==
  /\ phase = "mounted"
  /\ backoffRef > 0
  /\ error = CmdError
  /\ \E r \in Outstanding : r.stage = "fetch"

C17_CancelledCycleSchedulesNothing ==
  /\ [][\A r \in reads :
          (r.aborted /\ r \notin reads') => UNCHANGED <<timers, pollTimerRef>>]_vars
  /\ [](PollTimerPending => Outstanding = {})

\* ------------------------------------------------------------ C18
\* The poll timer the finally block has just set, if it has.
Scheduled(delay) ==
  /\ pollTimerRef' # 0
  /\ \A t \in timers' : t.kind = "poll" => (t.id = pollTimerRef' /\ t.delay = delay)
  /\ \E t \in timers' : t.kind = "poll"

\* C18: when a read request succeeds with a payload while the client runs,
\* MotorState becomes toMotorState(payload, current MotorState), connected
\* becomes true, lastSeen is refreshed, lastError is cleared, the backoff
\* delay becomes 0 and the next cycle is scheduled after 3000 ms.
C18_PollSuccess ==
  [][\A r \in Outstanding, data \in JsonResults :
       (mountedRef /\ ~data.null /\ ReadBodyJson(r, data)) =>
         /\ state' = toMotorState(data.raw, <<state>>)
         /\ connected' = TRUE
         /\ lastSeen' \in Times /\ lastSeen' >= lastSeen
         /\ error' = NoError
         /\ backoffRef' = 0
         /\ Scheduled(3000)]_vars

\* The reversed payload has been merged by a poll, and the next cycle waits
\* out the base interval.
C18_Witness ==
  /\ phase = "mounted" /\ connected /\ error = NoError /\ lastSeen # 0
  /\ backoffRef = 0
  /\ state = [power |-> FALSE, dir |-> -1, speed |-> 0]
  /\ reads = {} /\ cmds = EmptyBag
  /\ \E t \in timers : t.kind = "poll" /\ t.delay = 3000 /\ t.id = pollTimerRef

\* ------------------------------------------------------------ C19
\* C19: a read request that is not cancelled and ends in a network failure
\* or in a response whose body cannot be parsed is handled as a failure:
\* connected becomes false, lastError is set, the backoff delay is doubled
\* up to 30000 (1000 if it was 0) and the next cycle is scheduled after it.
C19_ReadFailure ==
  [][\A r \in Outstanding :
       (mountedRef /\ (ReadNetworkError(r) \/ ReadBodyJson(r, NullData))) =>
         /\ connected' = FALSE
         /\ error' # NoError
         /\ backoffRef' = IF backoffRef = 0 THEN 1000 ELSE Min(2 * backoffRef, 30000)
         /\ Scheduled(backoffRef')]_vars

PollTimers(pending) == {t \in pending : t.kind = "poll"}

\* C21: no command dispatch, at its start or at its completion, successful
\* or failed, changes the backoff delay or the pending poll timer: a
\* command that succeeds between two failed polls leaves the backoff as the
\* first failure set it.
C21_CommandLeavesBackoff ==
  [][cmds' # cmds =>
       /\ backoffRef' = backoffRef
       /\ pollTimerRef' = pollTimerRef
       /\ PollTimers(timers') = PollTimers(timers)]_vars

\* A command succeeded after a failed poll: connected again, the backoff
\* and the timer of the failure still in place.
C21_Witness ==
  /\ phase = "mounted" /\ connected
  /\ backoffRef >= 1000
  /\ \E t \in PollTimers(timers) : t.id = pollTimerRef /\ t.delay = backoffRef

\* ------------------------------------------------------------ C22
Sent      == BagCardinality(cmds') > BagCardinality(cmds)
Completed == BagCardinality(cmds') < BagCardinality(cmds)

\* C22 as stated: every dispatch sets busy and clears lastError when it
\* starts, and clears busy when its request completes, also after the
\* client has been shut down.
C22_BusyAlwaysCleared ==
  [][/\ Sent => (loading' = TRUE /\ error' = NoError)
     /\ Completed => loading' = FALSE]_vars

\* C22 amended: every dispatch sets busy and clears lastError when it
\* starts; when its request completes busy is cleared if the client is
\* still running, and left as it is if the client has been shut down.
C22_BusyClearedWhileRunning ==
  [][/\ Sent => (loading' = TRUE /\ error' = NoError)
     /\ Completed => loading' = (IF mountedRef THEN FALSE ELSE loading)]_vars

\* The request completed after shutdown and busy was left set.
C22_Witness ==
  /\ phase = "unmounted"
  /\ cmds = EmptyBag
  /\ loading

\* ------------------------------------------------------------ C23
\* C23: in every reachable state connected = true implies that lastSeen is
\* set.
C23_ConnectedHasLastSeen == connected => lastSeen \in Times

\* Connected by a poll, with a command on its way.
C23_Witness ==
  /\ connected /\ lastSeen # 0
  /\ error = NoError /\ backoffRef = 0
  /\ cmds # EmptyBag

\* ------------------------------------------------------------ C24
\* C24: in every reachable state at most one poll timer is pending, and it
\* is the one recorded in pollTimerRef.
C24_OnePollTimer ==
  /\ Cardinality(PollTimers(timers)) <= 1
  /\ \A t \in PollTimers(timers) : t.id = pollTimerRef

\* After Retry Now the cancelled cycle has set a poll timer while the
\* replacement read is in flight: the next completion has a timer to clear.
C24_Witness ==
  /\ phase = "mounted"
  /\ error = PollError /\ backoffRef = 0
  /\ PollTimerPending
  /\ Outstanding # {}
====
